---- MODULE Spec2Model ----
(***************************************************************************)
(* Account lifecycle server actions of src/actions/auth-actions.ts.        *)
(*                                                                         *)
(* Every exported handler is an async function; between two awaits other   *)
(* requests run.  A handler invocation is a process p: its first action    *)
(* reads the inputs and runs up to and including the first external call   *)
(* (Credential Provider, Directory, Notification service), every further   *)
(* action is the code between one await and the next.  Every external call *)
(* may succeed or fail.                                                    *)
(***************************************************************************)
EXTENDS Integers, FiniteSets, Sequences, TLC

\* ---------------------------------------------------------------- bounds
\* Number of identities the Credential Provider issues in one run.
MaxIds == 2

\* Largest totalItems and pageSize DataTable is rendered with.
MaxItems == 12
MaxPageSize == 4

\* Concurrent requests (handler invocations in flight at the same time).
Procs == {"p1", "p2"}

\* E-mail addresses the requests are made with.
Emails == {"a@x.com", "b@x.com"}

\* Roles createUser is called with: admin and one other role of the enum of
\* its signature ("guest" comes from signup).
Roles == {"admin", "staff"}

\* user ids the provider issues; 0 stands for no id (undefined)
Ids == 1..MaxIds

NoVal == "-"

VARIABLES
    Users,      \* the Directory: set of rows of table Users
    idents,     \* Credential Provider: set of identities [id, email]
    sessions,   \* sessions issued by the provider and held by browsers
    nextId,     \* next user id the provider issues
    pc,         \* pc[p]: position of invocation p in its handler
    op,         \* op[p]: the handler p runs
    arg,        \* arg[p]: the inputs of the invocation
    loc,        \* loc[p]: the handler's local variables
    calls,      \* calls[p]: external calls issued by the invocation so far
    res,        \* res[p]: what the invocation gave back to its caller
    table       \* the props DataTable is rendered with

vars == <<Users, idents, sessions, nextId, pc, op, arg, loc, calls, res, table>>

\* ------------------------------------------------------------- messages
DisabledMsg == "Your account has been disabled. Please contact support."
ValidationMsg == "validation messages"
MismatchMsg == "Password and Confirm Password must match."
ProviderMsg == "provider error message"
UnknownMsg == "Unknown error occurred"
InconsistentMsg == "User data inconsistent. Please contact support."
RetrieveMsg == "Failed to retrieve user details."
CreatedMsg == "User created successfully"

\* ------------------------------------------------- results of a handler
NoRes == [kind |-> "none", error |-> NoVal, success |-> NoVal, to |-> NoVal]
\* return { error: e }
RetError(e) == [kind |-> "return", error |-> e, success |-> NoVal, to |-> NoVal]
\* return { success: s, message: m }, s being "true" or "false"
RetSuccess(s, m) == [kind |-> "return", error |-> m, success |-> s, to |-> NoVal]
\* return of a value that carries neither error nor success (session data)
RetData(d) == [kind |-> "return", error |-> NoVal, success |-> NoVal, to |-> d]
\* redirect(path) with an optional error query parameter: raises NEXT_REDIRECT
Redirect(path, e) == [kind |-> "redirect", error |-> e, success |-> NoVal, to |-> path]
\* an exception that reaches the caller
Throw(e) == [kind |-> "throw", error |-> e, success |-> NoVal, to |-> NoVal]

\* ------------------------------------------------------ inputs, locals
NoSess == [id |-> 0, email |-> NoVal]
\* form: what the submitted form is like ("valid", "invalid" for one the
\* schema rejects, "mismatch" for differing password and confirmPassword)
NoArg == [email |-> NoVal, id |-> 0, role |-> NoVal, sess |-> NoSess, form |-> NoVal]
\* uid: user id the provider gave back; found: what the Directory lookup
\* found ("none", "active", "disabled"); cnt: the admin count read
NoLoc == [uid |-> 0, found |-> NoVal, cnt |-> -1]

ArgOf(e, i, r, s) == [email |-> e, id |-> i, role |-> r, sess |-> s, form |-> NoVal]

\* the inputs of a handler that validates a submitted form
FormArg(e, f) == [ArgOf(e, 0, NoVal, NoSess) EXCEPT !.form = f]

\* SchemaRejects with the result of safeParse not looked at
SchemaRejects_Never(f) == FALSE

\* !LoginFormSchema.safeParse(data).success, !registrationValidator.safeParse(data).success
SchemaRejects(f) == f = "invalid"

\* password !== confirmPassword
PasswordsDiffer(f) == f = "mismatch"

\* ------------------------------------------------------------ Directory
\* db.select().from(Users).where(eq(Users.email, email))
RowsByEmail(e) == {r \in Users : r.email = e}
\* db.select().from(Users).where(eq(Users.userId, id))
RowsById(i) == {r \in Users : r.userId = i}
\* AdminCount with the role condition left out: every row counts
AdminCount_AllRows == Cardinality(Users)

\* db.$count(Users, eq(Users.role, "admin"))
AdminCount == Cardinality({r \in Users : r.role = "admin"})

\* NewRow with the role argument dropped, so that the row gets the default role
NewRow_DefaultRole(i, e, r) ==
    [userId |-> i, email |-> e, role |-> "guest", isDisabled |-> FALSE,
     lastLogin |-> FALSE]

\* the row signup and createUser insert; isDisabled and lastLogin take the
\* column defaults
NewRow(i, e, r) ==
    [userId |-> i, email |-> e, role |-> r, isDisabled |-> FALSE, lastLogin |-> FALSE]

\* role: response ? "guest" : "admin"
SignupRole(response) == IF response # 0 THEN "guest" ELSE "admin"

\* SetDisabled with the where clause left out: every row is updated
SetDisabled_AllRows(U, i, v) == {[r EXCEPT !.isDisabled = v] : r \in U}

\* SetDisabled flipping the flag instead of setting it
SetDisabled_Toggle(U, i, v) ==
    {IF r.userId = i THEN [r EXCEPT !.isDisabled = ~r.isDisabled] ELSE r : r \in U}

\* db.update(Users).set({ isDisabled: v }).where(eq(Users.userId, i))
SetDisabled(U, i, v) ==
    {IF r.userId = i THEN [r EXCEPT !.isDisabled = v] ELSE r : r \in U}

\* db.update(Users).set({ lastLogin: NOW() }).where(eq(Users.userId, i))
SetLastLogin(U, i) ==
    {IF r.userId = i THEN [r EXCEPT !.lastLogin = TRUE] ELSE r : r \in U}

NoRow == [userId |-> 0, email |-> NoVal, role |-> NoVal, isDisabled |-> FALSE,
          lastLogin |-> FALSE]

\* the rows a select can put first (index 0): any matching row; NoRow stands
\* for undefined when the result is empty
FirstOf(rows) == IF rows = {} THEN {NoRow} ELSE rows

\* DisabledGate testing only that a row exists and is active
DisabledGate_Negated(dbUser, first) == dbUser # {} /\ ~first.isDisabled

\* dbUser.length > 0 && dbUser[0].isDisabled
DisabledGate(dbUser, first) == dbUser # {} /\ first.isDisabled

\* what a lookup found, as kept in loc[p].found
Found(dbUser, first) ==
    IF dbUser = {} THEN "none" ELSE IF first.isDisabled THEN "disabled" ELSE "active"

\* DerefThrows for user[0]?.email, which yields undefined instead of raising
DerefThrows_Optional(user) == FALSE

\* user[0].email raises a TypeError when the select returned no row
DerefThrows(user) == user = {}

\* ------------------------------------------------------------- provider
IdentByEmail(e) == {i \in idents : i.email = e}
IdentIds == {i.id : i \in idents}
UserIds == {r.userId : r \in Users}

\* --------------------------------------------------------- notification
\* A call to the Notification service (resend.contacts.create,
\* resend.contacts.remove, resend.emails.send) as the invocation's log shows
\* it: the call, and its failure when the service rejects it.  No handler
\* reads the service's state back.
Notified(call) == {{call}, {call, call \o " failed"}}

\* --------------------------------------------------------- bookkeeping
Ready(p) == pc[p] = "idle"

\* p starts handler o with inputs a
Start(p, o, a) ==
    /\ Ready(p)
    /\ op' = [op EXCEPT ![p] = o]
    /\ arg' = [arg EXCEPT ![p] = a]

\* p ends with result r, having issued the calls cs in this step
Finish(p, r, cs) ==
    /\ pc' = [pc EXCEPT ![p] = "done"]
    /\ res' = [res EXCEPT ![p] = r]
    /\ calls' = [calls EXCEPT ![p] = cs]
    /\ UNCHANGED table

\* p moves on to label l, having issued the calls cs in this step
Goto(p, l, cs) ==
    /\ pc' = [pc EXCEPT ![p] = l]
    /\ calls' = [calls EXCEPT ![p] = cs]
    /\ UNCHANGED <<res, table>>

\* the props DataTable takes when its caller passes none
DefaultProps == [totalItems |-> 0, currentPage |-> 1, pageSize |-> 10]

\* no account, no session, no request
NoRequests ==
    /\ Users = {}
    /\ idents = {}
    /\ sessions = {}
    /\ nextId = 1
    /\ pc = [p \in Procs |-> "idle"]
    /\ op = [p \in Procs |-> "none"]
    /\ arg = [p \in Procs |-> NoArg]
    /\ loc = [p \in Procs |-> NoLoc]
    /\ calls = [p \in Procs |-> {}]
    /\ res = [p \in Procs |-> NoRes]

Init == NoRequests /\ table = DefaultProps

\* the caller has received the result; the request is over
Return(p) ==
    /\ pc[p] = "done"
    /\ pc' = [pc EXCEPT ![p] = "idle"]
    /\ op' = [op EXCEPT ![p] = "none"]
    /\ arg' = [arg EXCEPT ![p] = NoArg]
    /\ loc' = [loc EXCEPT ![p] = NoLoc]
    /\ calls' = [calls EXCEPT ![p] = {}]
    /\ res' = [res EXCEPT ![p] = NoRes]
    /\ UNCHANGED <<Users, idents, sessions, nextId, table>>

\* ================================================================ login
\* login, lines 22-54: schema validation, then the Directory lookup by
\* e-mail and the disabled gate
Login_Select(p) ==
    \E e \in Emails, f \in {"valid", "invalid"} :
        /\ Start(p, "login", FormArg(e, f))
        /\ UNCHANGED <<Users, idents, sessions, nextId>>
        /\ IF SchemaRejects(f)
           THEN /\ Finish(p, RetError(ValidationMsg), {})
                /\ UNCHANGED loc
           ELSE \/ /\ Finish(p, Throw("select failed"), {"select"})
                   /\ UNCHANGED loc
                \/ \E first \in FirstOf(RowsByEmail(e)) :
                      /\ loc' = [loc EXCEPT ![p].found = Found(RowsByEmail(e), first)]
                      /\ IF DisabledGate(RowsByEmail(e), first)
                         THEN Finish(p, RetError(DisabledMsg), {"select"})
                         ELSE Goto(p, "login_signin", {"select"})

\* login, lines 56-63: supabase.auth.signInWithPassword
Login_SignIn(p) ==
    /\ pc[p] = "login_signin"
    /\ UNCHANGED <<Users, idents, nextId, op, arg>>
    /\ \/ /\ Finish(p, RetError(ProviderMsg), calls[p] \cup {"signInWithPassword"})
          /\ UNCHANGED <<sessions, loc>>
       \/ \E i \in IdentByEmail(arg[p].email) :
             /\ sessions' = sessions \cup {i}
             /\ loc' = [loc EXCEPT ![p].uid = i.id]
             /\ Goto(p, "login_update", calls[p] \cup {"signInWithPassword"})

\* login, lines 65-75: best-effort lastLogin update, then redirect("/")
Login_Update(p) ==
    /\ pc[p] = "login_update"
    /\ UNCHANGED <<idents, sessions, nextId, op, arg, loc>>
    /\ \/ Users' = SetLastLogin(Users, loc[p].uid)
       \/ UNCHANGED Users
    /\ Finish(p, Redirect("/", NoVal), calls[p] \cup {"updateLastLogin"})

\* =============================================================== signup
\* signup, lines 78-119: schema validation, password confirmation, then
\* supabase.auth.signUp.  The provider refuses an e-mail it already knows.
Signup_SignUp(p) ==
    \E e \in Emails, f \in {"valid", "invalid", "mismatch"} :
        /\ Start(p, "signup", FormArg(e, f))
        /\ UNCHANGED <<Users, sessions>>
        /\ IF SchemaRejects(f)
           THEN /\ Finish(p, RetError(ValidationMsg), {})
                /\ UNCHANGED <<idents, nextId, loc>>
           ELSE IF PasswordsDiffer(f)
           THEN /\ Finish(p, RetError(MismatchMsg), {})
                /\ UNCHANGED <<idents, nextId, loc>>
           ELSE \/ /\ Finish(p, RetError(ProviderMsg), {"signUp"})
                   /\ UNCHANGED <<idents, nextId, loc>>
                \/ /\ IdentByEmail(e) = {}
                   /\ nextId <= MaxIds
                   /\ idents' = idents \cup {[id |-> nextId, email |-> e]}
                   /\ nextId' = nextId + 1
                   /\ loc' = [loc EXCEPT ![p].uid = nextId]
                   /\ Goto(p, "signup_count", {"signUp"})

\* signup, line 123: the admin count, outside every try block
Signup_Count(p) ==
    /\ pc[p] = "signup_count"
    /\ UNCHANGED <<Users, idents, sessions, nextId, op, arg>>
    /\ \/ /\ Finish(p, Throw("count failed"), calls[p] \cup {"count"})
          /\ UNCHANGED loc
       \/ /\ loc' = [loc EXCEPT ![p].cnt = AdminCount]
          /\ Goto(p, "signup_insert", calls[p] \cup {"count"})

\* signup, lines 124-151: the Directory insert inside try/catch, then the
\* unawaited resend.contacts.create and return { error: null }
Signup_Insert(p) ==
    /\ pc[p] = "signup_insert"
    /\ UNCHANGED <<idents, sessions, nextId, op, arg, loc>>
    /\ \/ /\ Finish(p, RetError(UnknownMsg), calls[p] \cup {"insert"})
          /\ UNCHANGED Users
       \/ /\ Users' = Users \cup
                 {NewRow(loc[p].uid, arg[p].email, SignupRole(loc[p].cnt))}
          /\ \E n \in Notified("contacts.create") :
                Finish(p, RetError("null"), calls[p] \cup {"insert"} \cup n)

\* ============================================================== signOut
\* signOut, lines 154-162, for the session the request carries
SignOut(p) ==
    \E s \in sessions \cup {NoSess} :
        /\ Start(p, "signOut", ArgOf(NoVal, 0, NoVal, s))
        /\ UNCHANGED <<Users, idents, nextId, loc>>
        /\ \/ /\ Finish(p, RetData("error"), {"signOut"})
              /\ UNCHANGED sessions
           \/ /\ sessions' = sessions \ {s}
              /\ Finish(p, Redirect("/login", NoVal), {"signOut"})

\* ========================================================== GoogleLogin
\* GoogleLogin, lines 164-175: the person signing in with the Google account
\* e carries a session of theirs or none; getSession reads it from the
\* cookie; with a session, the Directory lookup by the session's e-mail
Google_Session(p) ==
    \E e \in Emails :
      \E s \in {x \in sessions : x.email = e} \cup {NoSess} :
        /\ Start(p, "GoogleLogin", ArgOf(e, 0, NoVal, s))
        /\ UNCHANGED <<Users, idents, sessions, nextId>>
        /\ IF s = NoSess
           THEN /\ Goto(p, "google_oauth", {"getSession"})
                /\ UNCHANGED loc
           ELSE \/ /\ Finish(p, Throw("select failed"), {"getSession", "select"})
                   /\ UNCHANGED loc
                \/ \E first \in FirstOf(RowsByEmail(s.email)) :
                      /\ loc' = [loc EXCEPT ![p].found =
                                     Found(RowsByEmail(s.email), first)]
                      /\ IF DisabledGate(RowsByEmail(s.email), first)
                         THEN Goto(p, "google_signout", {"getSession", "select"})
                         ELSE Goto(p, "google_oauth", {"getSession", "select"})

\* GoogleLogin, lines 176-180: sign the disabled user out (the result of
\* signOut is not looked at), then redirect to /login with the error
Google_SignOut(p) ==
    /\ pc[p] = "google_signout"
    /\ UNCHANGED <<Users, idents, nextId, op, arg, loc>>
    /\ \/ sessions' = sessions \ {arg[p].sess}
       \/ UNCHANGED sessions
    /\ Finish(p, Redirect("/login", DisabledMsg), calls[p] \cup {"signOut"})

\* GoogleLogin, lines 184-198: supabase.auth.signInWithOAuth
Google_OAuth(p) ==
    /\ pc[p] = "google_oauth"
    /\ UNCHANGED <<Users, idents, sessions, nextId, op, arg, loc>>
    /\ \/ Finish(p, Redirect("/login", ProviderMsg), calls[p] \cup {"signInWithOAuth"})
       \/ Finish(p, Redirect("provider OAuth URL", NoVal),
                 calls[p] \cup {"signInWithOAuth"})
       \/ Finish(p, RetData("undefined"), calls[p] \cup {"signInWithOAuth"})

\* ======================================================= session checks
\* supabase.auth.getUser(): the provider vouches for the session the request
\* carries when it issued it and the identity still exists
GetUserOk(s) == s \in sessions /\ s.id \in IdentIds

\* LoggedInOrRedirectToLogin, lines 201-209
LoggedInOrRedirectToLogin(p) ==
    \E s \in sessions \cup {NoSess} :
        /\ Start(p, "LoggedInOrRedirectToLogin", ArgOf(NoVal, 0, NoVal, s))
        /\ UNCHANGED <<Users, idents, sessions, nextId>>
        /\ \/ /\ Finish(p, Redirect("/login", NoVal), {"getUser"})
              /\ UNCHANGED loc
           \/ /\ GetUserOk(s)
              /\ loc' = [loc EXCEPT ![p].uid = s.id]
              /\ Finish(p, RetData("user"), {"getUser"})

\* getUserDataAndRole, lines 212-218
UserData_GetUser(p) ==
    \E s \in sessions \cup {NoSess} :
        /\ Start(p, "getUserDataAndRole", ArgOf(NoVal, 0, NoVal, s))
        /\ UNCHANGED <<Users, idents, sessions, nextId>>
        /\ \/ /\ Finish(p, Redirect("/login", NoVal), {"getUser"})
              /\ UNCHANGED loc
           \/ /\ GetUserOk(s)
              /\ loc' = [loc EXCEPT ![p].uid = s.id]
              /\ Goto(p, "userdata_select", {"getUser"})

\* what the catch block of lines 238-241 makes of an exception raised in the
\* try block: every exception, the NEXT_REDIRECT raised by redirect() too, is
\* caught and replaced by the redirect of line 240
CatchDbError(raised) == Redirect("/login", RetrieveMsg)

\* getUserDataAndRole, lines 221-241: the role query inside try/catch
UserData_Select(p) ==
    /\ pc[p] = "userdata_select"
    /\ UNCHANGED <<Users, idents, sessions, nextId, op, arg>>
    /\ \/ /\ Finish(p, CatchDbError(Throw("select failed")), calls[p] \cup {"select"})
          /\ UNCHANGED loc
       \/ \E first \in FirstOf(RowsById(loc[p].uid)) :
             /\ loc' = [loc EXCEPT ![p].found = Found(RowsById(loc[p].uid), first)]
             /\ IF RowsById(loc[p].uid) = {}
                THEN Finish(p, CatchDbError(Redirect("/login", InconsistentMsg)),
                            calls[p] \cup {"select"})
                ELSE Finish(p, RetData(first.role), calls[p] \cup {"select"})

\* ================================================== restrict and enable
\* restrictUserAccess, lines 273-289
restrictUserAccess(p) ==
    \E i \in Ids :
        /\ Start(p, "restrictUserAccess", ArgOf(NoVal, i, NoVal, NoSess))
        /\ UNCHANGED <<idents, sessions, nextId, loc>>
        /\ \/ /\ Finish(p, Throw("update failed"), {"update"})
              /\ UNCHANGED Users
           \/ /\ Users' = SetDisabled(Users, i, TRUE)
              /\ Finish(p, RetSuccess("true", NoVal), {"update"})

\* enableUserAccess, lines 291-307
enableUserAccess(p) ==
    \E i \in Ids :
        /\ Start(p, "enableUserAccess", ArgOf(NoVal, i, NoVal, NoSess))
        /\ UNCHANGED <<idents, sessions, nextId, loc>>
        /\ \/ /\ Finish(p, Throw("update failed"), {"update"})
              /\ UNCHANGED Users
           \/ /\ Users' = SetDisabled(Users, i, FALSE)
              /\ Finish(p, RetSuccess("true", NoVal), {"update"})

\* =========================================================== createUser
\* createUser, lines 309-346 and the catch of 391-399: supabase.auth.signUp
\* with a temporary password; an error or a missing user is thrown and caught
CreateUser_SignUp(p) ==
    \E e \in Emails, r \in Roles :
        /\ Start(p, "createUser", ArgOf(e, 0, r, NoSess))
        /\ UNCHANGED <<Users, sessions>>
        /\ \/ /\ Finish(p, RetSuccess("false", ProviderMsg), {"signUp"})
              /\ UNCHANGED <<idents, nextId, loc>>
           \/ /\ IdentByEmail(e) = {}
              /\ nextId <= MaxIds
              /\ idents' = idents \cup {[id |-> nextId, email |-> e]}
              /\ nextId' = nextId + 1
              /\ loc' = [loc EXCEPT ![p].uid = nextId]
              /\ Goto(p, "createuser_insert", {"signUp"})

\* createUser, lines 348-368: the Directory insert, whose failure is caught
\* at 391, then the unawaited resend.contacts.create
CreateUser_Insert(p) ==
    /\ pc[p] = "createuser_insert"
    /\ UNCHANGED <<idents, sessions, nextId, op, arg, loc>>
    /\ \/ /\ UNCHANGED Users
          /\ Finish(p, RetSuccess("false", "insert failed"), calls[p] \cup {"insert"})
       \/ /\ Users' = Users \cup {NewRow(loc[p].uid, arg[p].email, arg[p].role)}
          /\ \E n \in Notified("contacts.create") :
                Goto(p, "createuser_email", calls[p] \cup {"insert"} \cup n)

\* CreateUser_Email reporting a failed welcome e-mail as a failed creation
CreateUser_Email_Propagates(p) ==
    /\ pc[p] = "createuser_email"
    /\ UNCHANGED <<Users, idents, sessions, nextId, op, arg, loc>>
    /\ \E n \in Notified("emails.send") :
          Finish(p, IF "emails.send failed" \in n
                    THEN RetSuccess("false", "emails.send failed")
                    ELSE RetSuccess("true", CreatedMsg),
                 calls[p] \cup n)

\* createUser, lines 371-390: the welcome e-mail, whose error is only logged
CreateUser_Email(p) ==
    /\ pc[p] = "createuser_email"
    /\ UNCHANGED <<Users, idents, sessions, nextId, op, arg, loc>>
    /\ \E n \in Notified("emails.send") :
          Finish(p, RetSuccess("true", CreatedMsg), calls[p] \cup n)

\* =========================================================== deleteUser
\* deleteUser, lines 402-409: the Directory lookup by id, user[0].email and
\* the unawaited resend.contacts.remove
DeleteUser_Select(p) ==
    \E i \in Ids :
        /\ Start(p, "deleteUser", ArgOf(NoVal, i, NoVal, NoSess))
        /\ UNCHANGED <<Users, idents, sessions, nextId>>
        /\ \/ /\ Finish(p, Throw("select failed"), {"select"})
              /\ UNCHANGED loc
           \/ \E first \in FirstOf(RowsById(i)) :
                 /\ loc' = [loc EXCEPT ![p].found = Found(RowsById(i), first)]
                 /\ IF DerefThrows(RowsById(i))
                    THEN Finish(p, Throw("TypeError"), {"select"})
                    ELSE \E n \in Notified("contacts.remove") :
                            Goto(p, "deleteuser_auth", {"select"} \cup n)

\* deleteUser, line 411: supabase.auth.admin.deleteUser, whose result is not
\* looked at
DeleteUser_Auth(p) ==
    /\ pc[p] = "deleteuser_auth"
    /\ UNCHANGED <<Users, sessions, nextId, op, arg, loc>>
    /\ \/ idents' = {x \in idents : x.id # arg[p].id}
       \/ UNCHANGED idents
    /\ Goto(p, "deleteuser_db", calls[p] \cup {"admin.deleteUser"})

\* deleteUser, lines 413-415: the Directory delete, then { success: true }
DeleteUser_Db(p) ==
    /\ pc[p] = "deleteuser_db"
    /\ UNCHANGED <<idents, sessions, nextId, op, arg, loc>>
    /\ \/ /\ Finish(p, Throw("delete failed"), calls[p] \cup {"delete"})
          /\ UNCHANGED Users
       \/ /\ Users' = Users \ RowsById(arg[p].id)
          /\ Finish(p, RetSuccess("true", NoVal), calls[p] \cup {"delete"})

\* ============================================================ DataTable
\* const totalPages = Math.ceil(totalItems / pageSize)
TotalPages(t) ==
    IF t.totalItems % t.pageSize = 0
    THEN t.totalItems \div t.pageSize
    ELSE t.totalItems \div t.pageSize + 1

\* {totalPages > 1 && ( ...pagination controls... )}
ControlsShown(t) == TotalPages(t) > 1

\* Previous button: disabled={currentPage <= 1}
PreviousDisabled(t) == t.currentPage <= 1

\* NextDisabled comparing with > instead of >=
NextDisabled_OffByOne(t) == t.currentPage > TotalPages(t)

\* Next button: disabled={currentPage >= totalPages}
NextDisabled(t) == t.currentPage >= TotalPages(t)

\* Showing {(currentPage - 1) * pageSize + 1} to ...
RangeFrom(t) == (t.currentPage - 1) * t.pageSize + 1

\* ... {Math.min(currentPage * pageSize, totalItems)} of {totalItems} entries
RangeTo(t) ==
    IF t.currentPage * t.pageSize < t.totalItems
    THEN t.currentPage * t.pageSize
    ELSE t.totalItems

\* handlePageChange(newPage): the page parameter of the URL is set to newPage
\* and pageSize to the current page size; the table is rendered again with
\* that page
handlePageChange(t, newPage) == [t EXCEPT !.currentPage = newPage]

\* a table of totalItems entries and some page size, opened on its first page
InitTable ==
    /\ NoRequests
    /\ \E n \in 0..MaxItems, s \in 1..MaxPageSize :
          table = [totalItems |-> n, currentPage |-> 1, pageSize |-> s]

\* a click on the Previous button, when it is shown and enabled
ClickPrevious ==
    /\ ControlsShown(table)
    /\ ~PreviousDisabled(table)
    /\ table' = handlePageChange(table, table.currentPage - 1)
    /\ UNCHANGED <<Users, idents, sessions, nextId, pc, op, arg, loc, calls, res>>

\* a click on the Next button, when it is shown and enabled
ClickNext ==
    /\ ControlsShown(table)
    /\ ~NextDisabled(table)
    /\ table' = handlePageChange(table, table.currentPage + 1)
    /\ UNCHANGED <<Users, idents, sessions, nextId, pc, op, arg, loc, calls, res>>

NextTable == ClickPrevious \/ ClickNext

SpecTable == InitTable /\ [][NextTable]_vars

\* ======================================================= specifications
\* The whole program: every handler may be requested at any time.
Next ==
    \/ \E p \in Procs : Login_Select(p)
    \/ \E p \in Procs : Login_SignIn(p)
    \/ \E p \in Procs : Login_Update(p)
    \/ \E p \in Procs : Signup_SignUp(p)
    \/ \E p \in Procs : Signup_Count(p)
    \/ \E p \in Procs : Signup_Insert(p)
    \/ \E p \in Procs : SignOut(p)
    \/ \E p \in Procs : Google_Session(p)
    \/ \E p \in Procs : Google_SignOut(p)
    \/ \E p \in Procs : Google_OAuth(p)
    \/ \E p \in Procs : LoggedInOrRedirectToLogin(p)
    \/ \E p \in Procs : UserData_GetUser(p)
    \/ \E p \in Procs : UserData_Select(p)
    \/ \E p \in Procs : restrictUserAccess(p)
    \/ \E p \in Procs : enableUserAccess(p)
    \/ \E p \in Procs : CreateUser_SignUp(p)
    \/ \E p \in Procs : CreateUser_Insert(p)
    \/ \E p \in Procs : CreateUser_Email(p)
    \/ \E p \in Procs : DeleteUser_Select(p)
    \/ \E p \in Procs : DeleteUser_Auth(p)
    \/ \E p \in Procs : DeleteUser_Db(p)
    \/ \E p \in Procs : Return(p)

Spec == Init /\ [][Next]_vars

\* Workloads: the same handlers, with only some of them requested.

\* only signups are requested
NextSignup ==
    \/ \E p \in Procs : Signup_SignUp(p)
    \/ \E p \in Procs : Signup_Count(p)
    \/ \E p \in Procs : Signup_Insert(p)
    \/ \E p \in Procs : Return(p)

SpecSignup == Init /\ [][NextSignup]_vars

\* the operations that create and remove accounts
NextLifecycle ==
    \/ \E p \in Procs : Signup_SignUp(p)
    \/ \E p \in Procs : Signup_Count(p)
    \/ \E p \in Procs : Signup_Insert(p)
    \/ \E p \in Procs : CreateUser_SignUp(p)
    \/ \E p \in Procs : CreateUser_Insert(p)
    \/ \E p \in Procs : CreateUser_Email(p)
    \/ \E p \in Procs : DeleteUser_Select(p)
    \/ \E p \in Procs : DeleteUser_Auth(p)
    \/ \E p \in Procs : DeleteUser_Db(p)
    \/ \E p \in Procs : Return(p)

SpecLifecycle == Init /\ [][NextLifecycle]_vars

\* user management by an administrator
NextProvision ==
    \/ \E p \in Procs : CreateUser_SignUp(p)
    \/ \E p \in Procs : CreateUser_Insert(p)
    \/ \E p \in Procs : CreateUser_Email(p)
    \/ \E p \in Procs : DeleteUser_Select(p)
    \/ \E p \in Procs : DeleteUser_Auth(p)
    \/ \E p \in Procs : DeleteUser_Db(p)
    \/ \E p \in Procs : Return(p)

SpecProvision == Init /\ [][NextProvision]_vars

\* self-registered users, password login and the disabled gate
NextAccess ==
    \/ \E p \in Procs : Signup_SignUp(p)
    \/ \E p \in Procs : Signup_Count(p)
    \/ \E p \in Procs : Signup_Insert(p)
    \/ \E p \in Procs : Login_Select(p)
    \/ \E p \in Procs : Login_SignIn(p)
    \/ \E p \in Procs : Login_Update(p)
    \/ \E p \in Procs : restrictUserAccess(p)
    \/ \E p \in Procs : enableUserAccess(p)
    \/ \E p \in Procs : Return(p)

SpecAccess == Init /\ [][NextAccess]_vars

\* the same with OAuth login and the session checks
NextSession ==
    \/ \E p \in Procs : Signup_SignUp(p)
    \/ \E p \in Procs : Signup_Count(p)
    \/ \E p \in Procs : Signup_Insert(p)
    \/ \E p \in Procs : Login_Select(p)
    \/ \E p \in Procs : Login_SignIn(p)
    \/ \E p \in Procs : Login_Update(p)
    \/ \E p \in Procs : restrictUserAccess(p)
    \/ \E p \in Procs : enableUserAccess(p)
    \/ \E p \in Procs : Google_Session(p)
    \/ \E p \in Procs : Google_SignOut(p)
    \/ \E p \in Procs : Google_OAuth(p)
    \/ \E p \in Procs : LoggedInOrRedirectToLogin(p)
    \/ \E p \in Procs : UserData_GetUser(p)
    \/ \E p \in Procs : UserData_Select(p)
    \/ \E p \in Procs : Return(p)

SpecSession == Init /\ [][NextSession]_vars

\* no other invocation is in progress: calls made one after the other
Quiet(p) == \A q \in Procs \ {p} : pc[q] \in {"idle", "done"}

\* account creation and removal, one call at a time
NextSequential ==
    \/ \E p \in Procs : Quiet(p) /\ Signup_SignUp(p)
    \/ \E p \in Procs : Quiet(p) /\ Signup_Count(p)
    \/ \E p \in Procs : Quiet(p) /\ Signup_Insert(p)
    \/ \E p \in Procs : Quiet(p) /\ CreateUser_SignUp(p)
    \/ \E p \in Procs : Quiet(p) /\ CreateUser_Insert(p)
    \/ \E p \in Procs : Quiet(p) /\ CreateUser_Email(p)
    \/ \E p \in Procs : Quiet(p) /\ DeleteUser_Select(p)
    \/ \E p \in Procs : Quiet(p) /\ DeleteUser_Auth(p)
    \/ \E p \in Procs : Quiet(p) /\ DeleteUser_Db(p)
    \/ \E p \in Procs : Return(p)

SpecSequential == Init /\ [][NextSequential]_vars

\* every other invocation has returned to its caller
Returned(p) == \A q \in Procs \ {p} : pc[q] = "idle"

\* the same calls one at a time, each started after the one before it has
\* returned: the program's behaviours are those of SpecSequential, with the
\* result of one call at a time in the state
NextSerial ==
    \/ \E p \in Procs : Returned(p) /\ Signup_SignUp(p)
    \/ \E p \in Procs : Returned(p) /\ Signup_Count(p)
    \/ \E p \in Procs : Returned(p) /\ Signup_Insert(p)
    \/ \E p \in Procs : Returned(p) /\ CreateUser_SignUp(p)
    \/ \E p \in Procs : Returned(p) /\ CreateUser_Insert(p)
    \/ \E p \in Procs : Returned(p) /\ CreateUser_Email(p)
    \/ \E p \in Procs : Returned(p) /\ DeleteUser_Select(p)
    \/ \E p \in Procs : Returned(p) /\ DeleteUser_Auth(p)
    \/ \E p \in Procs : Returned(p) /\ DeleteUser_Db(p)
    \/ \E p \in Procs : Return(p)

SpecSerial == Init /\ [][NextSerial]_vars

\* registration: signup and createUser, interleaved
NextRegistration ==
    \/ \E p \in Procs : Signup_SignUp(p)
    \/ \E p \in Procs : Signup_Count(p)
    \/ \E p \in Procs : Signup_Insert(p)
    \/ \E p \in Procs : CreateUser_SignUp(p)
    \/ \E p \in Procs : CreateUser_Insert(p)
    \/ \E p \in Procs : CreateUser_Email(p)
    \/ \E p \in Procs : Return(p)

SpecRegistration == Init /\ [][NextRegistration]_vars

\* =============================================================== claims
AllOver == \A p \in Procs : pc[p] \in {"idle", "done"}

\* C1: a schema-valid login whose Directory lookup by e-mail yields a
\* disabled row ends at once with { error: DisabledMsg }: signInWithPassword
\* is not invoked in that call, no session is created and no row (so no
\* lastLogin) changes.
C1_DisabledLoginRejected ==
    [][\A p \in Procs :
          (pc[p] = "idle" /\ op'[p] = "login" /\ loc'[p].found = "disabled")
          => /\ pc'[p] = "done"
             /\ res'[p] = RetError(DisabledMsg)
             /\ calls'[p] \cap {"signInWithPassword", "updateLastLogin"} = {}
             /\ Users' = Users
             /\ sessions' = sessions]_vars

\* a login that was rejected because the row found is disabled
C1_Witness ==
    \E p \in Procs :
        /\ op[p] = "login" /\ pc[p] = "done"
        /\ loc[p].found = "disabled"
        /\ res[p] = RetError(DisabledMsg)

\* C2: when only signups run, the Directory never holds two admin rows, also
\* when signups interleave between the admin count and the insert.
C2_AtMostOneSignupAdmin ==
    Cardinality({r \in Users : r.role = "admin"}) <= 1

\* C3: GoogleLogin never invokes signInWithOAuth for a person whose Directory
\* row is disabled, whether or not the request carries a session.
C3_OAuthBlockedForDisabled ==
    [][\A p \in Procs :
          (pc[p] = "google_oauth" /\ pc'[p] = "done")
          => \A r \in RowsByEmail(arg[p].email) : ~r.isDisabled]_vars

\* C4: whenever no signup, createUser or deleteUser is in progress, the user
\* ids with a Directory row are the identities of the Credential Provider.
C4_DirectoryMatchesProvider ==
    AllOver => UserIds = IdentIds

\* C5: signup ends by returning an object { error: ... }; it raises no
\* exception to its caller.
C5_SignupNeverThrows ==
    \A p \in Procs : (op[p] = "signup" /\ pc[p] = "done") => res[p].kind = "return"

\* C6: deleteUser for a user id without a Directory row raises, without
\* issuing the provider's identity delete or the Directory delete, and
\* leaves identities and rows as they were.
C6_DeleteMissingUserFails ==
    [][\A p \in Procs :
          (pc[p] = "idle" /\ op'[p] = "deleteUser" /\ RowsById(arg'[p].id) = {})
          => /\ pc'[p] = "done"
             /\ res'[p].kind = "throw"
             /\ calls'[p] \cap {"contacts.remove", "admin.deleteUser", "delete"} = {}
             /\ Users' = Users
             /\ idents' = idents]_vars

\* a deleteUser whose lookup found no row and that raised
C6_Witness ==
    \E p \in Procs :
        /\ op[p] = "deleteUser" /\ pc[p] = "done"
        /\ loc[p].found = "none"
        /\ res[p].kind = "throw"

\* C7: a successful enableUserAccess(id) leaves every row of id with
\* isDisabled = false and a successful restrictUserAccess(id) with
\* isDisabled = true, whatever the value before (so restrict then enable ends
\* enabled); applied to a row that already has the value, each leaves the
\* Directory as it is (applying it twice is applying it once).
C7_RestrictEnableIdempotent ==
    [][\A p \in Procs :
          /\ (pc[p] = "idle" /\ op'[p] = "enableUserAccess"
                /\ res'[p].success = "true")
             => /\ \A r \in Users' : r.userId = arg'[p].id => ~r.isDisabled
                /\ {r.userId : r \in Users'} = UserIds
                /\ (\A r \in RowsById(arg'[p].id) : ~r.isDisabled) => Users' = Users
          /\ (pc[p] = "idle" /\ op'[p] = "restrictUserAccess"
                /\ res'[p].success = "true")
             => /\ \A r \in Users' : r.userId = arg'[p].id => r.isDisabled
                /\ {r.userId : r \in Users'} = UserIds
                /\ (\A r \in RowsById(arg'[p].id) : r.isDisabled) => Users' = Users]_vars

\* restrictUserAccess(i) and enableUserAccess(i) both succeeded on an existing
\* row that ended enabled: the restriction came first and was undone
C7_Witness ==
    \E p, q \in Procs : \E r \in Users :
        /\ op[p] = "restrictUserAccess" /\ res[p].success = "true"
        /\ op[q] = "enableUserAccess" /\ res[q].success = "true"
        /\ arg[p].id = r.userId /\ arg[q].id = r.userId
        /\ ~r.isDisabled

\* C8: a session check (LoggedInOrRedirectToLogin, or the role query of
\* getUserDataAndRole) made with the session of a user whose row is disabled
\* does not return the user's data.
C8_SessionCheckCatchesDisabled ==
    [][\A p \in Procs :
          /\ (pc[p] = "idle" /\ op'[p] = "LoggedInOrRedirectToLogin"
                /\ \E r \in RowsById(arg'[p].sess.id) : r.isDisabled)
             => res'[p].kind # "return"
          /\ (pc[p] = "userdata_select" /\ pc'[p] = "done"
                /\ \E r \in RowsById(loc[p].uid) : r.isDisabled)
             => res'[p].kind # "return"]_vars

\* C9: getUserDataAndRole whose role query succeeds and finds no row for the
\* authenticated identity ends in the redirect to /login with the
\* inconsistent-state message.
C9_InconsistentRedirect ==
    \A p \in Procs :
        (op[p] = "getUserDataAndRole" /\ pc[p] = "done" /\ loc[p].found = "none")
        => res[p] = Redirect("/login", InconsistentMsg)

\* C10: createUser reaches its insert only with the identity the provider
\* just created; the insert either adds the row of that id with the requested
\* e-mail and role, or fails, and then createUser returns success = false with
\* no welcome e-mail sent and the identity left without a row; createUser
\* returns success = true exactly when the insert went through.
C10_CreateUserSuccess ==
    [][\A p \in Procs :
          /\ (pc[p] = "idle" /\ pc'[p] = "createuser_insert")
             => /\ [id |-> loc'[p].uid, email |-> arg'[p].email] \in idents' \ idents
                /\ RowsById(loc'[p].uid) = {}
          /\ (pc[p] = "createuser_insert" /\ pc'[p] = "createuser_email")
             => /\ Users' \ Users \subseteq
                     {r \in Users' : /\ r.userId = loc[p].uid
                                     /\ r.email = arg[p].email
                                     /\ r.role = arg[p].role}
                /\ Users' # Users
                /\ loc[p].uid \in IdentIds
          /\ (pc[p] = "createuser_insert" /\ pc'[p] = "done")
             => /\ res'[p].success = "false"
                /\ "emails.send" \notin calls'[p]
                /\ loc[p].uid \in {i.id : i \in idents'}
                /\ {r \in Users' : r.userId = loc[p].uid} = {}
          /\ (op'[p] = "createUser" /\ pc[p] # "done" /\ pc'[p] = "done")
             => (res'[p].success = "true" <=> pc[p] = "createuser_email")]_vars

\* createUser returned success = false after the identity was created: the
\* identity exists and has no row
C10_Witness ==
    \E p \in Procs :
        /\ op[p] = "createUser" /\ pc[p] = "done"
        /\ res[p].success = "false"
        /\ loc[p].uid \in IdentIds
        /\ RowsById(loc[p].uid) = {}

\* C11: no Notification call decides the outcome of signup, createUser or
\* deleteUser.  The step that issues resend.contacts.create in signup returns
\* { error: null } with the row inserted; the one in createUser goes on to the
\* welcome e-mail with the row inserted; resend.emails.send is followed by
\* success = true with the Directory untouched; resend.contacts.remove is
\* followed by the provider delete with nothing removed yet: each of them
\* whether the log of the invocation shows the call as failed or not, and
\* none changes the provider's identities.
C11_NotificationNeverPropagates ==
    [][\A p \in Procs :
          /\ (pc[p] = "signup_insert" /\ "contacts.create" \in calls'[p])
             => /\ pc'[p] = "done" /\ res'[p] = RetError("null")
                /\ Users' # Users
                /\ Users' \ Users \subseteq {r \in Users' : r.userId = loc[p].uid}
                /\ idents' = idents
          /\ (pc[p] = "createuser_insert" /\ "contacts.create" \in calls'[p])
             => /\ pc'[p] = "createuser_email" /\ res'[p] = NoRes
                /\ Users' # Users
                /\ Users' \ Users \subseteq {r \in Users' : r.userId = loc[p].uid}
                /\ idents' = idents
          /\ (pc[p] = "createuser_email" /\ pc'[p] # pc[p])
             => /\ pc'[p] = "done" /\ res'[p] = RetSuccess("true", CreatedMsg)
                /\ "emails.send" \in calls'[p]
                /\ Users' = Users /\ idents' = idents
          /\ (pc[p] = "idle" /\ "contacts.remove" \in calls'[p])
             => /\ pc'[p] = "deleteuser_auth" /\ res'[p] = NoRes
                /\ Users' = Users /\ idents' = idents]_vars

\* createUser returned success = true with its row in the Directory although
\* both of its Notification calls failed
C11_Witness ==
    \E p \in Procs :
        /\ op[p] = "createUser" /\ pc[p] = "done"
        /\ {"contacts.create failed", "emails.send failed"} \subseteq calls[p]
        /\ res[p] = RetSuccess("true", CreatedMsg)
        /\ RowsById(loc[p].uid) # {}

\* a completed signup of p that stored its row with role admin
StoredAdmin(p) ==
    /\ op[p] = "signup" /\ pc[p] = "done"
    /\ res[p] = RetError("null")
    /\ SignupRole(loc[p].cnt) = "admin"

\* C12: over calls of signup, createUser and deleteUser made one after the
\* other from an empty Directory, no two signups are stored with role admin,
\* also after users have been deleted.
C12_OneAdminSignupEver ==
    Cardinality({p \in Procs : StoredAdmin(p)}) <= 1

\* C13: a signup whose form the schema rejects or whose password differs from
\* confirmPassword, and a login whose form the schema rejects, return an
\* { error: message } object having issued no call to the provider, the
\* Directory or the Notification service; identities, sessions and rows are
\* as before.
C13_InvalidInputNoEffect ==
    [][\A p \in Procs :
          (/\ pc[p] = "idle"
           /\ \/ op'[p] \in {"login", "signup"} /\ arg'[p].form = "invalid"
              \/ op'[p] = "signup" /\ arg'[p].form = "mismatch")
          => /\ pc'[p] = "done"
             /\ res'[p] = RetError(IF arg'[p].form = "invalid"
                                   THEN ValidationMsg ELSE MismatchMsg)
             /\ calls'[p] = {}
             /\ Users' = Users /\ idents' = idents
             /\ sessions' = sessions /\ nextId' = nextId]_vars

\* a signup with differing passwords and a login with a rejected form, both
\* answered with their error, next to an existing user
C13_Witness ==
    \E p, q \in Procs :
        /\ op[p] = "signup" /\ arg[p].form = "mismatch" /\ pc[p] = "done"
        /\ res[p] = RetError(MismatchMsg)
        /\ op[q] = "login" /\ arg[q].form = "invalid" /\ pc[q] = "done"
        /\ res[q] = RetError(ValidationMsg)
        /\ Users # {}

\* C14: when login invokes signInWithPassword for an e-mail, no Directory row
\* of that e-mail is disabled, in every interleaving with restrictUserAccess
\* and enableUserAccess.
C14_NoSignInWhileDisabled ==
    [][\A p \in Procs :
          (pc[p] = "login_signin" /\ pc'[p] # pc[p])
          => \A r \in RowsByEmail(arg[p].email) : ~r.isDisabled]_vars

\* C15: the count signup reads is the number of Directory rows with role
\* admin at that moment, and a successful signup stores exactly one row, of
\* its provider-issued id, with role admin if the count it read was zero and
\* role guest otherwise, whatever other rows exist; never another role.
C15_SignupRoleFromCount ==
    [][\A p \in Procs :
          /\ (pc[p] = "signup_count" /\ pc'[p] = "signup_insert")
             => loc'[p].cnt = Cardinality({r \in Users : r.role = "admin"})
          /\ (pc[p] = "signup_insert" /\ res'[p] = RetError("null"))
             => /\ Cardinality(Users' \ Users) = 1
                /\ \A r \in Users' \ Users :
                      /\ r.userId = loc[p].uid
                      /\ r.role \in {"admin", "guest"}
                      /\ r.role = "admin" <=> loc[p].cnt = 0]_vars

\* a signup that read a count of zero and was stored as admin while a
\* non-admin row created by createUser was in the Directory
C15_Witness ==
    \E p \in Procs : \E r, s \in Users :
        /\ op[p] = "signup" /\ pc[p] = "done" /\ res[p] = RetError("null")
        /\ loc[p].cnt = 0
        /\ r.userId = loc[p].uid /\ r.role = "admin"
        /\ s.role = "staff" /\ s.userId < r.userId

\* C16: once deleteUser(userId) has returned { success: true }, userId has
\* neither a provider identity nor a Directory row, whatever the provider
\* answered to the delete of the identity.
C16_DeletedEverywhere ==
    \A p \in Procs :
        (op[p] = "deleteUser" /\ pc[p] = "done" /\ res[p].success = "true")
        => /\ arg[p].id \notin IdentIds
           /\ RowsById(arg[p].id) = {}

\* a row with its isDisabled field masked
Masked(r) == [r EXCEPT !.isDisabled = FALSE]

\* C17: restrictUserAccess(userId) and enableUserAccess(userId) leave every
\* row of another user id as it is, keep the user ids that have a row, change
\* no field but isDisabled in the rows of userId, and leave the provider's
\* identities, the sessions and the next id alone; with no row of userId the
\* Directory is unchanged.
C17_AccessFrame ==
    [][\A p \in Procs :
          (pc[p] = "idle" /\ op'[p] \in {"restrictUserAccess", "enableUserAccess"})
          => /\ {r \in Users' : r.userId # arg'[p].id}
                  = {r \in Users : r.userId # arg'[p].id}
             /\ {Masked(r) : r \in Users'} = {Masked(r) : r \in Users}
             /\ Cardinality(Users') = Cardinality(Users)
             /\ (RowsById(arg'[p].id) = {} => Users' = Users)
             /\ idents' = idents /\ sessions' = sessions /\ nextId' = nextId]_vars

\* restrictUserAccess succeeded on a user who has logged in and holds a
\* session, next to another user who stayed active
C17_Witness ==
    \E p \in Procs : \E r, s \in Users :
        /\ op[p] = "restrictUserAccess" /\ pc[p] = "done"
        /\ res[p].success = "true"
        /\ r.userId = arg[p].id /\ r.isDisabled /\ r.lastLogin
        /\ r.userId \in {x.id : x \in sessions}
        /\ s.userId # r.userId /\ ~s.isDisabled

\* C18: in a table opened on its first page and browsed with the buttons, the
\* current page stays within 1..ceil(totalItems / pageSize) (page 1 for an
\* empty table); Previous is enabled only on a page after the first and Next
\* only on a page before the last; and whenever the pagination controls are
\* shown, 1 <= first entry shown <= last entry shown <= totalItems.
C18_PaginationInRange ==
    /\ table.currentPage >= 1
    /\ table.totalItems > 0
         => (table.currentPage - 1) * table.pageSize < table.totalItems
    /\ ~PreviousDisabled(table) => table.currentPage > 1
    /\ ~NextDisabled(table) => table.currentPage * table.pageSize < table.totalItems
    /\ ControlsShown(table)
         => /\ 1 <= RangeFrom(table)
            /\ RangeFrom(table) <= RangeTo(table)
            /\ RangeTo(table) <= table.totalItems

\* the last page of a table of more than two pages, reached with the Next
\* button, whose last page is not full
C18_Witness ==
    /\ ControlsShown(table)
    /\ TotalPages(table) > 2
    /\ table.currentPage = TotalPages(table)
    /\ table.totalItems % table.pageSize # 0
    /\ RangeTo(table) = table.totalItems

====
